---- MODULE Spec2Model ----
(***************************************************************************)
(* sway-gravity: the Placement State and its merge, the geometry           *)
(* resolution of one pass, and the daemon's reconciliation loop with its   *)
(* three event sources (socket listener, compositor-event worker, signal   *)
(* handler).                                                               *)
(*                                                                         *)
(* The repository holds run_daemon twice: the monolithic src/main.rs and   *)
(* the modular src/daemon/mod.rs.  The variable `build` says which of the  *)
(* two a behaviour runs; every daemon property is checked for both.        *)
(*                                                                         *)
(* Option<T> is a sequence: <<>> is None, <<x>> is Some(x).                *)
(* f32 arithmetic is modelled by exact rational arithmetic on integers,    *)
(* with f32::round as round-half-away-from-zero and `as i32` as            *)
(* truncation toward zero.  Percentages are whole numbers.                 *)
(***************************************************************************)
EXTENDS Integers, Sequences, FiniteSets, TLC

VARIABLES
    build,        \* "main" (src/main.rs) or "daemon" (src/daemon/mod.rs)
    state,        \* run_daemon: the Placement State `state`
    queue,        \* the mpsc channel: events sent and not yet received
    loop_pc,      \* run_daemon: "subscribing", "idle", "resolving", "break",
                  \* "socket_down", "returned_ok", "returned_err"
    event,        \* the event the loop holds while resolving (Option)
    conns,        \* connections made to the socket and not yet accepted
    listener,     \* socket listener thread: "accepting", "panicked", "closed"
    sway_stream,  \* compositor events subscribed and not yet read by the worker
    sway_worker,  \* compositor-event worker thread: "running", "exited"
    running,      \* SwaySubscription.running (AtomicBool)
    socket,       \* IpcSocket: is the path in the filesystem, is the fd listening,
                  \* how many times it was dropped
    successor,    \* a daemon started on the same socket path: its place in
                  \* init_or_replace, and whether it sent the Shutdown request
    tree,         \* the compositor: floating windows, focus, working area
    pass,         \* what the last pass did: commands issued, outcome
    prev_ok,      \* history: the last successful pass before `pass`
    budget,       \* how many more inputs the environment gives
    hist,         \* history: events accepted per source, events processed
    mS,           \* merge harness: the state merged into
    mU,           \* merge harness: the update merged
    mR,           \* merge harness: the states after one, two merges
    pIn,          \* pure-function harness: the inputs drawn
    pOut          \* pure-function harness: the results (a sequence, empty at first)

daemon_vars == <<build, state, queue, loop_pc, event, conns, listener,
                 sway_stream, sway_worker, running, socket, successor, tree, pass,
                 prev_ok, budget, hist>>
merge_vars == <<mS, mU, mR>>
pure_vars == <<pIn, pOut>>
vars == <<build, state, queue, loop_pc, event, conns, listener,
          sway_stream, sway_worker, running, socket, successor, tree, pass,
          prev_ok, budget, hist, mS, mU, mR, pIn, pOut>>

(***************************************************************************)
(* Data                                                                    *)
(***************************************************************************)
None == <<>>
Some(x) == <<x>>

Vertical == {"Top", "Middle", "Bottom"}
Horizontal == {"Left", "Middle", "Right"}

Vertical_default == "Bottom"
Horizontal_default == "Right"

AbsPx(v) == [kind |-> "abs_px", v |-> v]
AbsPct(v) == [kind |-> "abs_pct", v |-> v]
RelPx(v) == [kind |-> "rel_px", v |-> v]
RelPct(v) == [kind |-> "rel_pct", v |-> v]

\* The units the checked inputs are drawn from.
Units == {AbsPx(400), AbsPct(50), RelPx(50), RelPct(10)}
Paddings == {0, 10}

Position_default == <<Vertical_default, Horizontal_default>>

State_default ==
    [position |-> Position_default, padding |-> 0, width |-> None,
     height |-> None, natural |-> FALSE]

PositionUpdate_default == <<None, None>>

StateUpdate_default ==
    [position |-> PositionUpdate_default, padding |-> None, width |-> None,
     height |-> None, natural |-> None]

(***************************************************************************)
(* Placement State merge                                                   *)
(***************************************************************************)
\* A zone update that takes effect only when both zones are given.
Position_update_as_pair(self, update) ==
    IF update[1] # None /\ update[2] # None THEN << update[1][1], update[2][1] >> ELSE self

Position_update(self, update) ==
    << IF update[1] # None THEN update[1][1] ELSE self[1],
       IF update[2] # None THEN update[2][1] ELSE self[2] >>

State_update_keep_other(self, update) ==
    LET s1 == [self EXCEPT !.position = Position_update(self.position, update.position)]
        s2 == IF update.padding # None THEN [s1 EXCEPT !.padding = update.padding[1]] ELSE s1
        s3 == IF update.natural # None THEN [s2 EXCEPT !.natural = update.natural[1]] ELSE s2
    IN  [s3 EXCEPT !.width = IF update.width # None THEN update.width[1] ELSE @,
                   !.height = IF update.height # None THEN update.height[1] ELSE @]

State_update_add_padding(self, update) ==
    LET s1 == [self EXCEPT !.position = Position_update(self.position, update.position)]
        s2 == IF update.padding # None
              THEN [s1 EXCEPT !.padding = @ + update.padding[1]] ELSE s1
        s3 == IF update.natural # None THEN [s2 EXCEPT !.natural = update.natural[1]] ELSE s2
    IN  CASE update.width # None /\ update.height # None ->
                [s3 EXCEPT !.width = update.width[1], !.height = update.height[1]]
          [] update.width # None /\ update.height = None ->
                [s3 EXCEPT !.width = update.width[1], !.height = None]
          [] update.width = None /\ update.height # None ->
                [s3 EXCEPT !.width = None, !.height = update.height[1]]
          [] OTHER -> s3

\* A merge that unsets the size when the update has none.
State_update_clear_unsized(self, update) ==
    LET s1 == [self EXCEPT !.position = Position_update(self.position, update.position)]
        s2 == IF update.padding # None THEN [s1 EXCEPT !.padding = update.padding[1]] ELSE s1
        s3 == IF update.natural # None THEN [s2 EXCEPT !.natural = update.natural[1]] ELSE s2
    IN  [s3 EXCEPT !.width = IF update.width # None THEN update.width[1] ELSE None,
                   !.height = IF update.height # None THEN update.height[1] ELSE None]

State_update(self, update) ==
    LET s1 == [self EXCEPT !.position = Position_update(self.position, update.position)]
        s2 == IF update.padding # None THEN [s1 EXCEPT !.padding = update.padding[1]] ELSE s1
        s3 == IF update.natural # None THEN [s2 EXCEPT !.natural = update.natural[1]] ELSE s2
    IN  CASE update.width # None /\ update.height # None ->
                [s3 EXCEPT !.width = update.width[1], !.height = update.height[1]]
          [] update.width # None /\ update.height = None ->
                [s3 EXCEPT !.width = update.width[1], !.height = None]
          [] update.width = None /\ update.height # None ->
                [s3 EXCEPT !.width = None, !.height = update.height[1]]
          [] OTHER -> s3

\* A `with` that returns the state it was called on.
State_with_unmerged(self, update) == self

State_with(self, update) == State_update(self, update)

(***************************************************************************)
(* Arithmetic of the geometry code                                         *)
(***************************************************************************)
I32_MAX == 2147483647
I32_MIN == -I32_MAX - 1

Max(a, b) == IF a >= b THEN a ELSE b
Abs(a) == IF a >= 0 THEN a ELSE -a

\* i32::saturating_add
saturating_add(a, b) ==
    IF b > 0 /\ a > I32_MAX - b THEN I32_MAX
    ELSE IF b < 0 /\ a < I32_MIN - b THEN I32_MIN
    ELSE a + b

\* An f32 holds every integer below 2^24 exactly; above, only the multiples
\* of a power of two.
F32_EXACT == 16777216

RECURSIVE F32_spacing(_, _)
F32_spacing(a, s) == IF a \div s < F32_EXACT THEN s ELSE F32_spacing(a, 2 * s)

\* a / s rounded to the nearest integer, halves to the even one
RoundHalfEven(a, s) ==
    IF 2 * (a % s) > s \/ (2 * (a % s) = s /\ (a \div s) % 2 = 1)
    THEN a \div s + 1 ELSE a \div s

F32_nearest(a, s) ==
    IF RoundHalfEven(a, s) > I32_MAX \div s THEN I32_MAX ELSE RoundHalfEven(a, s) * s

\* `n as f32` of an integer n > i32::MIN: the nearest f32.  The one value
\* above i32::MAX, 2^31, is given as i32::MAX, which is what the `as i32`
\* that ends unit_to_real_pixels makes of it.
ToF32(n) ==
    IF n >= 0 THEN F32_nearest(n, F32_spacing(n, 1))
    ELSE -F32_nearest(-n, F32_spacing(-n, 1))

\* f32::round of the rational n / d, d # 0: nearest integer, halves away from zero.
Round(n, d) ==
    LET an == Abs(n)
        ad == Abs(d)
        q  == (2 * an + ad) \div (2 * ad)
    IN  IF (n >= 0) = (d > 0) THEN q ELSE -q

\* `as i32` of the rational n / d, d > 0: truncation toward zero.
Trunc(n, d) == IF n >= 0 THEN n \div d ELSE -((-n) \div d)

\* A ratio is the pair <<numerator, denominator>>; 0.0 is <<0, 1>>.
aspect_ratio(width, height) == IF height = 0 THEN <<0, 1>> ELSE <<width, height>>

scale_to_ratio_from_width(width, ratio) ==
    IF ratio[1] = 0 THEN 0 ELSE Round(width * ratio[2], ratio[1])

scale_to_ratio_from_height(height, ratio) ==
    IF ratio[1] = 0 THEN 0 ELSE Round(height * ratio[1], ratio[2])

unit_to_real_pixels(unit, target_px, container_px) ==
    LET real ==
            CASE unit.kind = "abs_px" -> <<ToF32(unit.v), 1>>
              [] unit.kind = "abs_pct" -> <<container_px * unit.v, 100>>
              [] unit.kind = "rel_px" -> <<ToF32(saturating_add(target_px, unit.v)), 1>>
              [] unit.kind = "rel_pct" ->
                    \* target / 0.0 is infinite or NaN, 0.0 * that is NaN,
                    \* and NaN.max(0.0) is 0.0
                    IF container_px = 0 THEN <<0, 1>>
                    ELSE <<100 * target_px + unit.v * container_px, 100>>
    IN  Round(Max(real[1], 0), real[2])

(***************************************************************************)
(* src/daemon/unit.rs: the unit types with their own arithmetic            *)
(***************************************************************************)
\* A u32 is the pair <<high, low>> of its 16-bit halves.
U16 == 65536
U15 == 32768

\* The u32 of a number in 0..i32::MAX
U32(n) == <<n \div U16, n % U16>>

\* `i as u32`: the same 32 bits, so a negative i is i + 2^32
as_u32(i) ==
    IF i >= 0 THEN U32(i)
    ELSE <<((i + I32_MAX) + 1) \div U16 + U15, ((i + I32_MAX) + 1) % U16>>

\* `u as i32`: the same 32 bits
as_i32(u) ==
    IF u[1] < U15 THEN u[1] * U16 + u[2]
    ELSE (((u[1] - U15) * U16 + u[2]) - I32_MAX) - 1

AbsolutePixels(u) == [kind |-> "abs_px", v |-> u]
AbsolutePercentage(f) == [kind |-> "abs_pct", v |-> f]

\* impl Add<RelativePixels> for AbsolutePixels; the operands of the model
\* keep the i32 sum in range.
Add_RelativePixels(self, other) == as_u32(as_i32(self) + other)

\* AbsolutePixels::as_absolute_percentage, container_px > 0: the percentage
\* rounded to a whole number; self.0 < 2^31 in the model.
as_absolute_percentage(self, container_px) == Round(100 * as_i32(self), container_px)

\* AbsolutePercentage::as_absolute_pixels: `as u32` of a float saturates at 0.
as_absolute_pixels(pct, container_px) == U32(Max(0, Round(pct * container_px, 100)))

\* Unit::to_absolute(baseline, container_px); baseline is an AbsoluteUnit.
to_absolute(unit, baseline, container_px) ==
    CASE unit.kind \in {"abs_px", "abs_pct"} -> unit
      [] unit.kind = "rel_px" /\ baseline.kind = "abs_px" ->
            AbsolutePixels(Add_RelativePixels(baseline.v, unit.v))
      [] unit.kind = "rel_pct" /\ baseline.kind = "abs_pct" ->
            AbsolutePercentage(baseline.v + unit.v)
      [] unit.kind = "rel_px" /\ baseline.kind = "abs_pct" ->
            AbsolutePixels(Add_RelativePixels(as_absolute_pixels(baseline.v, container_px),
                                              unit.v))
      [] unit.kind = "rel_pct" /\ baseline.kind = "abs_px" ->
            AbsolutePercentage(as_absolute_percentage(baseline.v, container_px) + unit.v)

(***************************************************************************)
(* Rect                                                                    *)
(***************************************************************************)
Rect(x, y, width, height) == [x |-> x, y |-> y, width |-> width, height |-> height]

with_padding(self, padding) ==
    [x |-> self.x + padding, y |-> self.y + padding,
     width |-> self.width - padding * 2, height |-> self.height - padding * 2]

translate(self, x, y) == [self EXCEPT !.x = @ + x, !.y = @ + y]

WithSize(self, wh) == [self EXCEPT !.width = wh[1], !.height = wh[2]]

WidthThenRatio_as_height(w, aspect) == << w, scale_to_ratio_from_height(w, aspect) >>
WidthThenRatio(w, aspect) == << w, scale_to_ratio_from_width(w, aspect) >>
HeightThenRatio_as_width(h, aspect) == << scale_to_ratio_from_width(h, aspect), h >>
HeightThenRatio(h, aspect) == << scale_to_ratio_from_height(h, aspect), h >>

\* A scale that keeps the aspect when both dimensions are given.
scale_both_by_ratio(self, width, height, target, container, ratio) ==
    WithSize(self,
        CASE width # None ->
               WidthThenRatio(
                   unit_to_real_pixels(width[1], target.width, container.width),
                   IF ratio # None THEN ratio[1]
                   ELSE aspect_ratio(target.width, target.height))
          [] width = None /\ height # None ->
               HeightThenRatio(
                   unit_to_real_pixels(height[1], target.height, container.height),
                   IF ratio # None THEN ratio[1]
                   ELSE aspect_ratio(target.width, target.height))
          [] OTHER -> << target.width, target.height >>)

\* Rect::scale; `ratio` is an Option of a ratio.
scale(self, width, height, target, container, ratio) ==
    WithSize(self,
        CASE width # None /\ height # None ->
               << unit_to_real_pixels(width[1], target.width, container.width),
                  unit_to_real_pixels(height[1], target.height, container.height) >>
          [] width # None /\ height = None ->
               WidthThenRatio(
                   unit_to_real_pixels(width[1], target.width, container.width),
                   IF ratio # None THEN ratio[1]
                   ELSE aspect_ratio(target.width, target.height))
          [] width = None /\ height # None ->
               HeightThenRatio(
                   unit_to_real_pixels(height[1], target.height, container.height),
                   IF ratio # None THEN ratio[1]
                   ELSE aspect_ratio(target.width, target.height))
          [] OTHER -> << target.width, target.height >>)

\* The zone fractions 0.0, 0.5, 1.0 in halves.
v_offset(pos) == CASE pos[1] = "Top" -> 0 [] pos[1] = "Middle" -> 1 [] pos[1] = "Bottom" -> 2
h_offset(pos) == CASE pos[2] = "Left" -> 0 [] pos[2] = "Middle" -> 1 [] pos[2] = "Right" -> 2

\* (a as f32 * offset) - (b as f32 * offset) in halves: the products by 0.0,
\* 0.5 and 1.0 are exact, the difference is rounded to an f32.
f32_offset_diff(a, b, halves) == ToF32(ToF32(a) * halves - ToF32(b) * halves)

\* Offsets that stop at the container's edge.
get_pos_for_rect_of_size_clamped(self, pos, rect) ==
    [x |-> Max(0, Trunc(f32_offset_diff(self.width, rect.width, h_offset(pos)), 2)),
     y |-> Max(0, Trunc(f32_offset_diff(self.height, rect.height, v_offset(pos)), 2)),
     width |-> rect.width, height |-> rect.height]

get_pos_for_rect_of_size(self, pos, rect) ==
    [x |-> Trunc(f32_offset_diff(self.width, rect.width, h_offset(pos)), 2),
     y |-> Trunc(f32_offset_diff(self.height, rect.height, v_offset(pos)), 2),
     width |-> rect.width, height |-> rect.height]

(***************************************************************************)
(* The compositor: tree of floating windows, one workspace                 *)
(***************************************************************************)
WindowIds == {1, 2}
NoFocus == 0   \* the focused node is not a floating window

\* The working area of the workspace (swayipc Workspace.rect).
WorkingArea == Rect(0, 0, 200, 100)

\* deco_rect.height and geometry (the natural size) of each window.
DecoHeight == [w \in WindowIds |-> IF w = 1 THEN 20 ELSE 0]
Geometry == [w \in WindowIds |-> IF w = 1 THEN Rect(0, 0, 160, 120) ELSE Rect(0, 0, 50, 50)]

InitialRects == [w \in WindowIds |-> IF w = 1 THEN Rect(0, 0, 200, 100) ELSE Rect(20, 20, 100, 100)]

\* The layouts the environment can produce: which windows float, which has focus.
Layouts ==
    { [floating |-> {}, focus |-> NoFocus],
      [floating |-> {1}, focus |-> 1],
      [floating |-> {1, 2}, focus |-> 2],
      [floating |-> {1, 2}, focus |-> NoFocus] }

InitialTree == [floating |-> {1}, focus |-> 1, rects |-> InitialRects]

\* What a compositor call of a pass can do: succeed, or fail at one call.
\* "no_workspace": get_workspaces succeeds and no workspace holds the window.
Faults == {"none", "get_tree", "get_workspaces", "no_workspace", "resize", "move"}

\* run_command(cmd)? returns Ok when the compositor answered, also when the
\* answer is that the command failed: the outcomes in the answer are dropped.
\* A rejected command has no effect on the window.
Rejections == {"resize_rejected", "move_rejected"}
CommandOutcomes == Faults \cup Rejections

\* The text of a command with what became of it: "ok", "rejected" by the
\* compositor, or "error" of the connection.
Command(cmd, con_id, args, result) ==
    [cmd |-> cmd, con_id |-> con_id, args |-> args, result |-> result]

NoPass == [outcome |-> "none", target |-> 0, resize |-> None, move |-> None]

\* Selection that asks for the focus also when one window floats.
find_target_node_focused_only(tr, fault) ==
    IF fault = "get_tree" THEN [ok |-> FALSE, err |-> "SwayIPC", target |-> 0]
    ELSE IF tr.focus \in tr.floating
         THEN [ok |-> TRUE, err |-> "", target |-> tr.focus]
    ELSE IF Cardinality(tr.floating) = 0
         THEN [ok |-> FALSE, err |-> "NoApplicableNode", target |-> 0]
         ELSE [ok |-> FALSE, err |-> "MultipleApplicableNodes", target |-> 0]

\* Selection without the arm for no floating window.
find_target_node_no_empty_arm(tr, fault) ==
    IF fault = "get_tree" THEN [ok |-> FALSE, err |-> "SwayIPC", target |-> 0]
    ELSE IF Cardinality(tr.floating) = 1
         THEN [ok |-> TRUE, err |-> "", target |-> CHOOSE w \in tr.floating : TRUE]
    ELSE IF tr.focus \in tr.floating
         THEN [ok |-> TRUE, err |-> "", target |-> tr.focus]
         ELSE [ok |-> FALSE, err |-> "MultipleApplicableNodes", target |-> 0]

\* Selection that takes some floating window when none has the focus.
find_target_node_any_of_many(tr, fault) ==
    IF fault = "get_tree" THEN [ok |-> FALSE, err |-> "SwayIPC", target |-> 0]
    ELSE IF Cardinality(tr.floating) = 0
         THEN [ok |-> FALSE, err |-> "NoApplicableNode", target |-> 0]
    ELSE IF tr.focus \in tr.floating
         THEN [ok |-> TRUE, err |-> "", target |-> tr.focus]
         ELSE [ok |-> TRUE, err |-> "", target |-> CHOOSE w \in tr.floating : TRUE]

\* Target selection: src/main.rs move_window, the tree query and the match on
\* floating_nodes.len(); src/daemon/mod.rs calls it as find_target_node.
find_target_node(tr, fault) ==
    IF fault = "get_tree" THEN [ok |-> FALSE, err |-> "SwayIPC", target |-> 0]
    ELSE IF Cardinality(tr.floating) = 1
         THEN [ok |-> TRUE, err |-> "", target |-> CHOOSE w \in tr.floating : TRUE]
    ELSE IF Cardinality(tr.floating) = 0
         THEN [ok |-> FALSE, err |-> "NoApplicableNode", target |-> 0]
    ELSE IF tr.focus \in tr.floating
         THEN [ok |-> TRUE, err |-> "", target |-> tr.focus]
         ELSE [ok |-> FALSE, err |-> "MultipleApplicableNodes", target |-> 0]

\* The size taken from the rect that has the decoration height added.
scaled_rect_of_decorated(tr, target, st) ==
    scale([tr.rects[target] EXCEPT !.height = @ + DecoHeight[target]],
          st.width, st.height,
          [tr.rects[target] EXCEPT !.height = @ + DecoHeight[target]],
          with_padding(WorkingArea, st.padding),
          IF st.natural
          THEN Some(aspect_ratio(Geometry[target].width, Geometry[target].height))
          ELSE None)

\* A size that always derives the missing dimension from the current rect.
scaled_rect_current_aspect(tr, target, st) ==
    scale([tr.rects[target] EXCEPT !.height = @ + DecoHeight[target]],
          st.width, st.height, tr.rects[target],
          with_padding(WorkingArea, st.padding), None)

\* move_window, the size: the window's rect (with the decoration height
\* added to the copy that is scaled) scaled for the state inside the padded
\* working area.
scaled_rect(tr, target, st) ==
    scale([tr.rects[target] EXCEPT !.height = @ + DecoHeight[target]],
          st.width, st.height, tr.rects[target],
          with_padding(WorkingArea, st.padding),
          IF st.natural
          THEN Some(aspect_ratio(Geometry[target].width, Geometry[target].height))
          ELSE None)

\* A position taken inside the padded area and not moved back by the padding.
final_pos_in_padded_area(st, scaled) ==
    get_pos_for_rect_of_size(with_padding(WorkingArea, st.padding), st.position, scaled)

\* move_window, the position: the zone offset inside the padded area, then
\* the padding added back.
final_pos(st, scaled) ==
    translate(get_pos_for_rect_of_size(with_padding(WorkingArea, st.padding),
                                       st.position, scaled),
              st.padding, st.padding)

Resized(tr, target, scaled) ==
    [tr EXCEPT !.rects[target].width = scaled.width,
               !.rects[target].height = scaled.height]

Moved(tr, target, at) ==
    [tr EXCEPT !.rects[target].x = at.x, !.rects[target].y = at.y]

\* move_window, the two commands.  The compositor applies a command that
\* succeeds to the window's rectangle.
issue_commands(tr, target, fault, scaled, at) ==
    LET size == [width |-> scaled.width, height |-> scaled.height]
        to == [x |-> at.x, y |-> at.y]
    IN
    IF fault = "resize"
    THEN [outcome |-> "SwayIPC", target |-> target, resize |-> None, move |-> None,
          tree |-> tr, cmds |-> <<Command("resize", target, size, "error")>>]
    ELSE IF fault = "move"
    THEN [outcome |-> "SwayIPC", target |-> target, resize |-> Some(size),
          move |-> None, tree |-> Resized(tr, target, scaled),
          cmds |-> <<Command("resize", target, size, "ok"),
                     Command("move", target, to, "error")>>]
    ELSE IF fault = "resize_rejected"
    THEN [outcome |-> "ok", target |-> target, resize |-> Some(size),
          move |-> Some(to), tree |-> Moved(tr, target, at),
          cmds |-> <<Command("resize", target, size, "rejected"),
                     Command("move", target, to, "ok")>>]
    ELSE IF fault = "move_rejected"
    THEN [outcome |-> "ok", target |-> target, resize |-> Some(size),
          move |-> Some(to), tree |-> Resized(tr, target, scaled),
          cmds |-> <<Command("resize", target, size, "ok"),
                     Command("move", target, to, "rejected")>>]
    ELSE [outcome |-> "ok", target |-> target, resize |-> Some(size),
          move |-> Some(to), tree |-> Moved(Resized(tr, target, scaled), target, at),
          cmds |-> <<Command("resize", target, size, "ok"),
                     Command("move", target, to, "ok")>>]

resize_and_move(tr, target, st, fault, scaled) ==
    issue_commands(tr, target, fault, scaled, final_pos(st, scaled))

\* The rest of a pass on the selected window `target`: working area, scale,
\* resize command, position, move command.
apply_state(tr, target, st, fault) ==
    IF fault = "get_workspaces"
    THEN [outcome |-> "SwayIPC", target |-> target, resize |-> None, move |-> None,
          tree |-> tr, cmds |-> <<>>]
    ELSE IF fault = "no_workspace"
    THEN [outcome |-> "NoApplicableNode", target |-> target, resize |-> None,
          move |-> None, tree |-> tr, cmds |-> <<>>]
    ELSE resize_and_move(tr, target, st, fault, scaled_rect(tr, target, st))

SelectionFailed(tr, err) ==
    [outcome |-> err, target |-> 0, resize |-> None, move |-> None, tree |-> tr,
     cmds |-> <<>>]

ApplyTo(tr, sel, st, fault) ==
    IF ~sel.ok THEN SelectionFailed(tr, sel.err) ELSE apply_state(tr, sel.target, st, fault)

\* src/main.rs move_window(con, state): selection, then the pass.
move_window(tr, st, fault) == ApplyTo(tr, find_target_node(tr, fault), st, fault)

\* move_window(con, window, state, update) as src/daemon/mod.rs calls it:
\* the pass for the state with the update merged; Ok carries that state.
move_window_update(tr, window, st, update, fault) ==
    [result |-> apply_state(tr, window, State_with(st, update), fault),
     updated |-> State_with(st, update)]

(***************************************************************************)
(* Command line, events, the socket encoding                               *)
(***************************************************************************)
Args(vertical, horizontal, padding, width, height, natural, shutdown) ==
    [vertical |-> vertical, horizontal |-> horizontal, padding |-> padding,
     width |-> width, height |-> height, natural |-> natural, shutdown |-> shutdown]

Shutdown == [kind |-> "Shutdown", update |-> StateUpdate_default]
Update(u) == [kind |-> "Update", update |-> u]

\* impl From<Args> for StateUpdate, src/main.rs: width and height are always Some.
StateUpdate_from_Args_main(args) ==
    [position |-> <<args.vertical, args.horizontal>>, padding |-> args.padding,
     width |-> Some(args.width), height |-> Some(args.height), natural |-> args.natural]

\* impl From<Args> for StateUpdate, src/daemon/mod.rs: `width: args.width`, the
\* field of the arguments as it is: absent stays absent, given is Some(Some(u)).
StateUpdate_from_Args_daemon(args) ==
    [position |-> <<args.vertical, args.horizontal>>, padding |-> args.padding,
     width |-> IF args.width = None THEN None ELSE Some(args.width),
     height |-> IF args.height = None THEN None ELSE Some(args.height),
     natural |-> args.natural]

StateUpdate_from_Args(b, args) ==
    IF b = "main" THEN StateUpdate_from_Args_main(args) ELSE StateUpdate_from_Args_daemon(args)

\* A conversion that has no Shutdown.
DaemonEvent_from_Args_update_only(b, args) == Update(StateUpdate_from_Args(b, args))

DaemonEvent_from_Args(b, args) ==
    IF args.shutdown THEN Shutdown ELSE Update(StateUpdate_from_Args(b, args))

\* A conversion of the compositor's event that sets a field of the update.
DaemonEvent_from_sway_resets_padding ==
    Update([StateUpdate_default EXCEPT !.padding = Some(0)])

\* impl From<swayipc::Event> for DaemonEvent
DaemonEvent_from_sway == Update(StateUpdate_default)

\* serde_json of an Option<Option<Unit>> field: None and Some(None) are both
\* written as null, and null is read back as None.
to_json_field(f) == IF f = None THEN None ELSE f[1]
from_json_field_double_option(j) == Some(j)
from_json_field(j) == IF j = None THEN None ELSE Some(j)

\* serde_json::to_string(&event)
to_string(ev) ==
    [kind |-> ev.kind,
     update |-> [ev.update EXCEPT !.width = to_json_field(@), !.height = to_json_field(@)]]

\* serde_json::from_reader(stream) of a well-formed message
from_reader(msg) ==
    [kind |-> msg.kind,
     update |-> [msg.update EXCEPT !.width = from_json_field(@), !.height = from_json_field(@)]]

Malformed == [kind |-> "Malformed", update |-> StateUpdate_default]

(***************************************************************************)
(* The daemon                                                              *)
(***************************************************************************)
\* How many inputs (client connections, compositor events, signals, layout
\* changes) the environment gives in one behaviour.
MaxInputs == 3

NoArgs == Args(None, None, None, None, None, None, FALSE)

\* The command lines the daemon is started with.
DaemonArgs ==
    { NoArgs,
      Args(Some("Top"), Some("Left"), Some(10), Some(AbsPx(400)), None, None, FALSE) }

\* The command lines of the client invocations.
ClientArgs ==
    { NoArgs,
      Args(Some("Middle"), None, Some(10), None, None, None, FALSE),
      Args(None, None, None, Some(RelPx(50)), None, None, FALSE),
      Args(None, None, None, None, Some(AbsPct(50)), Some(TRUE), FALSE),
      Args(None, None, None, None, None, None, TRUE) }

\* What the compositor puts on the subscription stream; "error" is an Err item.
SwayEvents == {"workspace_reload", "workspace_focus", "window", "error"}

\* SwaySubscription::init, `match &event`: a workspace event whose change is
\* Reload goes on to the send, every other event takes `continue`.
is_reload_any_workspace(e) == e \in {"workspace_reload", "workspace_focus"}
is_reload(e) == e = "workspace_reload"

Returned == {"returned_ok", "returned_err"}
Stopped == {"break", "socket_down", "returned_ok", "returned_err"}

\* `for event in rx.iter()`: the loop takes the next event when it is idle.
CanReceive_reentrant(pc) == pc \in {"idle", "resolving"}
CanReceive_after_break(pc) == pc \in {"idle", "break"}
CanReceive(pc) == pc = "idle"

\* tx.send(event): the channel keeps arrival order.
Enqueue_in_front(q, e) == <<e>> \o q
Enqueue(q, e) == Append(q, e)

\* `match event`: is the event DaemonEvent::Shutdown.
is_shutdown_never(ev) == FALSE
is_shutdown(ev) == ev.kind = "Shutdown"

\* IpcSocket::init: the path is bound and the listener thread accepts.
IpcSocket_init == [path |-> TRUE, listening |-> TRUE, drops |-> 0]

\* impl Drop for IpcSocket: libc::shutdown(fd), then remove_file(path).
Drop_IpcSocket_keeps_path(s) == [s EXCEPT !.listening = FALSE, !.drops = @ + 1]
Drop_IpcSocket(s) == [path |-> FALSE, listening |-> FALSE, drops |-> s.drops + 1]

\* std::fs::exists(socket_path), asked by a daemon that starts on the same path.
fs_exists_never(s) == FALSE
fs_exists(s) == s.path

\* UnixStream::connect(path) succeeds while the listener holds the socket open.
Connects_by_path(s, l) == s.path
Connects(s, l) == s.listening /\ l = "accepting"

NoSuccessor == [pc |-> "none", asked |-> FALSE]

\* impl Drop for SwaySubscription, `let _ = self.con.send_tick("")`: the
\* compositor puts a tick event on the worker's subscription.
send_tick_dropped(stream) == stream
send_tick(stream) == Append(stream, "tick")

\* The subscription worker and the Ctrl-C handler exist.
Subscribed(pc) == pc \notin Returned \cup {"subscribing"}

Sent(src, ev, origin) ==
    [id |-> Len(hist.sent) + 1, src |-> src, ev |-> ev, origin |-> origin]

Record(e) == [id |-> e.id, src |-> e.src, kind |-> e.ev.kind, origin |-> e.origin]

\* The pure-function harness is not in use.
NoInput == [kind |-> "none"]

Init ==
    /\ build \in {"main", "daemon"}
    /\ \E args \in DaemonArgs :
          state = State_with(State_default, StateUpdate_from_Args(build, args))
    /\ queue = <<>>
    /\ loop_pc = "subscribing"
    /\ event = <<>>
    /\ conns = <<>>
    /\ listener = "accepting"
    /\ sway_stream = <<>>
    /\ sway_worker = "running"
    /\ running = TRUE
    /\ socket = IpcSocket_init
    /\ successor = NoSuccessor
    /\ tree = InitialTree
    /\ pass = NoPass
    /\ prev_ok = None
    /\ budget = MaxInputs
    /\ hist = [sent |-> <<>>, processed |-> <<>>, malformed |-> 0]
    /\ mS = State_default
    /\ mU = StateUpdate_default
    /\ mR = <<>>
    /\ pIn = NoInput
    /\ pOut = <<>>

\* A client invocation: send_message connects and writes the encoded event.
ClientSend ==
    /\ budget > 0
    /\ Connects(socket, listener)
    /\ \E args \in ClientArgs :
          conns' = Append(conns, [msg |-> to_string(DaemonEvent_from_Args(build, args)),
                                  origin |-> Some(args)])
    /\ budget' = budget - 1
    /\ UNCHANGED <<build, successor, state, queue, loop_pc, event, listener, sway_stream,
                   sway_worker, running, socket, tree, pass, prev_ok, hist>>
    /\ UNCHANGED merge_vars /\ UNCHANGED pure_vars

\* A connection whose bytes are no DaemonEvent.
ClientSendMalformed ==
    /\ budget > 0
    /\ Connects(socket, listener)
    /\ conns' = Append(conns, [msg |-> Malformed, origin |-> None])
    /\ budget' = budget - 1
    /\ UNCHANGED <<build, successor, state, queue, loop_pc, event, listener, sway_stream,
                   sway_worker, running, socket, tree, pass, prev_ok, hist>>
    /\ UNCHANGED merge_vars /\ UNCHANGED pure_vars

\* The socket listener thread, one connection: from_reader(..).expect(..)
\* panics on a malformed message, otherwise the message is sent to the loop.
ListenerAccept ==
    /\ listener = "accepting"
    /\ socket.listening
    /\ conns # <<>>
    /\ conns' = Tail(conns)
    /\ IF Head(conns).msg.kind = "Malformed"
       THEN /\ listener' = "panicked"
            /\ hist' = [hist EXCEPT !.malformed = @ + 1]
            /\ UNCHANGED queue
       ELSE LET e == Sent("socket", from_reader(Head(conns).msg), Head(conns).origin)
            IN  /\ queue' = Enqueue(queue, e)
                /\ hist' = [hist EXCEPT !.sent = Append(@, Record(e))]
                /\ UNCHANGED listener
    /\ UNCHANGED <<build, successor, state, loop_pc, event, sway_stream, sway_worker, running,
                   socket, tree, pass, prev_ok, budget>>
    /\ UNCHANGED merge_vars /\ UNCHANGED pure_vars

\* incoming() yields Err once the socket was shut down: the thread leaves its loop.
ListenerClose ==
    /\ listener = "accepting"
    /\ ~socket.listening
    /\ listener' = "closed"
    /\ UNCHANGED <<build, successor, state, queue, loop_pc, event, conns, sway_stream,
                   sway_worker, running, socket, tree, pass, prev_ok, budget, hist>>
    /\ UNCHANGED merge_vars /\ UNCHANGED pure_vars

\* The compositor emits an event on the subscription.
SwayEmit ==
    /\ budget > 0
    /\ Subscribed(loop_pc)
    /\ \E e \in SwayEvents : sway_stream' = Append(sway_stream, e)
    /\ budget' = budget - 1
    /\ UNCHANGED <<build, successor, state, queue, loop_pc, event, conns, listener,
                   sway_worker, running, socket, tree, pass, prev_ok, hist>>
    /\ UNCHANGED merge_vars /\ UNCHANGED pure_vars

\* The compositor-event worker reads one event: the running check, then the filter.
SwayWorkerRecv ==
    /\ sway_worker = "running"
    /\ sway_stream # <<>>
    /\ sway_stream' = Tail(sway_stream)
    /\ sway_worker' =
          IF ~running THEN "exited"
          ELSE IF Head(sway_stream) = "error" THEN "exited"
          ELSE IF is_reload(Head(sway_stream)) THEN "sleeping"
          ELSE "running"
    /\ UNCHANGED <<build, successor, state, queue, loop_pc, event, conns, listener, running,
                   socket, tree, pass, prev_ok, budget, hist>>
    /\ UNCHANGED merge_vars /\ UNCHANGED pure_vars

\* After the settle delay: `let _ = tx.send(event.into())`.
SwayWorkerSend ==
    /\ sway_worker = "sleeping"
    /\ sway_worker' = "running"
    /\ IF loop_pc \in Returned
       THEN UNCHANGED <<queue, hist>>
       ELSE LET e == Sent("sway", DaemonEvent_from_sway, None)
            IN  /\ queue' = Enqueue(queue, e)
                /\ hist' = [hist EXCEPT !.sent = Append(@, Record(e))]
    /\ UNCHANGED <<build, successor, state, loop_pc, event, conns, listener, sway_stream,
                   running, socket, tree, pass, prev_ok, budget>>
    /\ UNCHANGED merge_vars /\ UNCHANGED pure_vars

\* The Ctrl-C handler.
Signal ==
    /\ budget > 0
    /\ Subscribed(loop_pc)
    /\ LET e == Sent("signal", Shutdown, None)
       IN  /\ queue' = Enqueue(queue, e)
           /\ hist' = [hist EXCEPT !.sent = Append(@, Record(e))]
    /\ budget' = budget - 1
    /\ UNCHANGED <<build, successor, state, loop_pc, event, conns, listener, sway_stream,
                   sway_worker, running, socket, tree, pass, prev_ok>>
    /\ UNCHANGED merge_vars /\ UNCHANGED pure_vars

\* The user opens, closes or focuses windows.
LayoutChange ==
    /\ budget > 0
    /\ loop_pc \notin Returned
    /\ \E l \in Layouts :
          /\ <<l.floating, l.focus>> # <<tree.floating, tree.focus>>
          /\ tree' = [tree EXCEPT !.floating = l.floating, !.focus = l.focus]
    /\ budget' = budget - 1
    /\ UNCHANGED <<build, successor, state, queue, loop_pc, event, conns, listener, sway_stream,
                   sway_worker, running, socket, pass, prev_ok, hist>>
    /\ UNCHANGED merge_vars /\ UNCHANGED pure_vars

\* A second daemon is started on the same socket path, init_or_replace: when
\* the path exists it sends Shutdown to it (an error of the connection is
\* returned), then it polls the path; otherwise it goes on to bind.
SuccessorStart ==
    /\ budget > 0
    /\ successor.pc = "none"
    /\ IF fs_exists(socket)
       THEN IF Connects(socket, listener)
            THEN /\ conns' = Append(conns, [msg |-> to_string(Shutdown), origin |-> None])
                 /\ successor' = [pc |-> "waiting", asked |-> TRUE]
            ELSE /\ successor' = [pc |-> "failed", asked |-> FALSE]
                 /\ UNCHANGED conns
       ELSE /\ successor' = [pc |-> "binding", asked |-> FALSE]
            /\ UNCHANGED conns
    /\ budget' = budget - 1
    /\ UNCHANGED <<build, state, queue, loop_pc, event, listener, sway_stream,
                   sway_worker, running, socket, tree, pass, prev_ok, hist>>
    /\ UNCHANGED merge_vars /\ UNCHANGED pure_vars

\* init_or_replace, `while let Ok(true) = exists(path)`: the loop is left once
\* the path is gone.
SuccessorPoll ==
    /\ successor.pc = "waiting"
    /\ ~fs_exists(socket)
    /\ successor' = [successor EXCEPT !.pc = "binding"]
    /\ UNCHANGED <<build, state, queue, loop_pc, event, conns, listener, sway_stream,
                   sway_worker, running, socket, tree, pass, prev_ok, budget, hist>>
    /\ UNCHANGED merge_vars /\ UNCHANGED pure_vars

\* IpcSocket::init, UnixListener::bind(&path)?: binding a path that exists
\* fails with AddrInUse.
SuccessorBind ==
    /\ successor.pc = "binding"
    /\ successor' = [successor EXCEPT !.pc = IF socket.path THEN "failed" ELSE "bound"]
    /\ UNCHANGED <<build, state, queue, loop_pc, event, conns, listener, sway_stream,
                   sway_worker, running, socket, tree, pass, prev_ok, budget, hist>>
    /\ UNCHANGED merge_vars /\ UNCHANGED pure_vars

\* run_daemon after the socket is bound: SwaySubscription::init(..)? and the
\* Ctrl-C handler.  When the compositor connection fails the error is
\* returned and the IpcSocket is dropped on the way out.
LoopSubscribe ==
    /\ loop_pc = "subscribing"
    /\ \E connected \in BOOLEAN :
          IF connected
          THEN loop_pc' = "idle" /\ UNCHANGED socket
          ELSE loop_pc' = "returned_err" /\ socket' = Drop_IpcSocket(socket)
    /\ UNCHANGED <<build, successor, state, queue, event, conns, listener, sway_stream,
                   sway_worker, running, tree, pass, prev_ok, budget, hist>>
    /\ UNCHANGED merge_vars /\ UNCHANGED pure_vars

\* run_daemon, `for event in rx.iter()`: the loop takes the next event.
LoopRecv ==
    /\ CanReceive(loop_pc)
    /\ queue # <<>>
    /\ queue' = Tail(queue)
    /\ IF is_shutdown(Head(queue).ev)
       THEN /\ loop_pc' = "break"
            /\ UNCHANGED event
       ELSE /\ loop_pc' = "resolving"
            /\ event' = Append(event, Head(queue))
    /\ UNCHANGED <<build, successor, state, conns, listener, sway_stream, sway_worker, running,
                   socket, tree, pass, prev_ok, budget, hist>>
    /\ UNCHANGED merge_vars /\ UNCHANGED pure_vars

PassOf(r) == [outcome |-> r.outcome, target |-> r.target, resize |-> r.resize, move |-> r.move]

OkPass(st, r) ==
    Some([state |-> st, tree |-> r.tree, resize |-> r.resize[1], move |-> r.move[1]])

\* src/main.rs run_daemon, DaemonEvent::Update: merge, then move_window; an
\* error is printed.
LoopPassMain ==
    /\ build = "main"
    /\ loop_pc = "resolving"
    /\ event # <<>>
    /\ \E fault \in CommandOutcomes :
       \E merged \in {State_update(state, Head(event).ev.update)} :
       \E r \in {move_window(tree, merged, fault)} :
          /\ state' = merged
          /\ tree' = r.tree
          /\ pass' = PassOf(r)
          /\ prev_ok' = IF r.outcome = "ok" THEN OkPass(merged, r) ELSE prev_ok
    /\ hist' = [hist EXCEPT !.processed = Append(@, Head(event).id)]
    /\ event' = Tail(event)
    /\ loop_pc' = "idle"
    /\ UNCHANGED <<build, successor, queue, conns, listener, sway_stream, sway_worker, running,
                   socket, budget>>
    /\ UNCHANGED merge_vars /\ UNCHANGED pure_vars

\* src/daemon/mod.rs run_daemon, DaemonEvent::Update: find_target_node(..)?
\* returns its error from run_daemon (the socket and the subscription are
\* dropped on the way out); move_window's Ok replaces the state, its Err is
\* printed.
LoopPassDaemon ==
    /\ build = "daemon"
    /\ loop_pc = "resolving"
    /\ event # <<>>
    /\ \E fault \in CommandOutcomes :
       \E window \in {find_target_node(tree, fault)} :
          IF ~window.ok
          THEN /\ loop_pc' = "returned_err"
               /\ pass' = PassOf(SelectionFailed(tree, window.err))
               /\ socket' = Drop_IpcSocket(socket)
               /\ running' = FALSE
               /\ sway_stream' = send_tick(sway_stream)
               /\ UNCHANGED <<state, tree, prev_ok>>
          ELSE \E m \in {move_window_update(tree, window.target, state,
                                            Head(event).ev.update, fault)} :
               /\ loop_pc' = "idle"
               /\ state' = IF m.result.outcome = "ok" THEN m.updated ELSE state
               /\ tree' = m.result.tree
               /\ pass' = PassOf(m.result)
               /\ prev_ok' = IF m.result.outcome = "ok"
                             THEN OkPass(m.updated, m.result) ELSE prev_ok
               /\ UNCHANGED <<socket, running, sway_stream>>
    /\ hist' = [hist EXCEPT !.processed = Append(@, Head(event).id)]
    /\ event' = Tail(event)
    /\ UNCHANGED <<build, successor, queue, conns, listener, sway_worker, budget>>
    /\ UNCHANGED merge_vars /\ UNCHANGED pure_vars

\* After the loop: socket.shutdown() drops the IpcSocket.
LoopSocketShutdown ==
    /\ loop_pc = "break"
    /\ socket' = Drop_IpcSocket(socket)
    /\ loop_pc' = "socket_down"
    /\ UNCHANGED <<build, successor, state, queue, event, conns, listener, sway_stream,
                   sway_worker, running, tree, pass, prev_ok, budget, hist>>
    /\ UNCHANGED merge_vars /\ UNCHANGED pure_vars

\* sway_sub.shutdown() drops the SwaySubscription; run_daemon returns Ok(()).
LoopSwayShutdown ==
    /\ loop_pc = "socket_down"
    /\ running' = FALSE
    /\ sway_stream' = send_tick(sway_stream)
    /\ loop_pc' = "returned_ok"
    /\ UNCHANGED <<build, successor, state, queue, event, conns, listener, sway_worker,
                   socket, tree, pass, prev_ok, budget, hist>>
    /\ UNCHANGED merge_vars /\ UNCHANGED pure_vars

Next ==
    \/ LoopSubscribe
    \/ SuccessorStart
    \/ SuccessorPoll
    \/ SuccessorBind
    \/ ClientSend
    \/ ClientSendMalformed
    \/ ListenerAccept
    \/ ListenerClose
    \/ SwayEmit
    \/ SwayWorkerRecv
    \/ SwayWorkerSend
    \/ Signal
    \/ LayoutChange
    \/ LoopRecv
    \/ LoopPassMain
    \/ LoopPassDaemon
    \/ LoopSocketShutdown
    \/ LoopSwayShutdown

Spec == Init /\ [][Next]_vars

\* run_daemon runs the two statements after its loop without waiting for
\* anything, and a starting daemon keeps polling and then binds.
FairSpec ==
    /\ Spec
    /\ WF_vars(LoopSocketShutdown)
    /\ WF_vars(LoopSwayShutdown)
    /\ WF_vars(SuccessorPoll)
    /\ WF_vars(SuccessorBind)

\* The worker is a thread of its own: it reads an event that waits on its
\* subscription and sends once its delay has passed.
FairWorkerSpec ==
    /\ FairSpec
    /\ WF_vars(SwayWorkerRecv)
    /\ WF_vars(SwayWorkerSend)

(***************************************************************************)
(* State::update on its own: the inputs are drawn in InitMerge, the        *)
(* actions merge the update once and once more.                            *)
(***************************************************************************)
MergeUnits == {AbsPx(400), RelPx(50)}
OptUnit == {None} \cup {Some(u) : u \in MergeUnits}

MergeStates ==
    [position : {<<"Bottom", "Right">>, <<"Top", "Left">>}, padding : Paddings,
     width : OptUnit, height : OptUnit, natural : BOOLEAN]

MergeUpdates ==
    [position : {<<None, None>>, <<Some("Middle"), None>>, <<None, Some("Left")>>},
     padding : {None} \cup {Some(p) : p \in Paddings},
     width : {None} \cup {Some(o) : o \in OptUnit},
     height : {None} \cup {Some(o) : o \in OptUnit},
     natural : {None, Some(TRUE), Some(FALSE)}]

InitMerge ==
    /\ mS \in MergeStates
    /\ mU \in MergeUpdates
    /\ mR = <<>>
    /\ build = "main"
    /\ state = State_default
    /\ queue = <<>>
    /\ loop_pc = "idle"
    /\ event = <<>>
    /\ conns = <<>>
    /\ listener = "accepting"
    /\ sway_stream = <<>>
    /\ sway_worker = "running"
    /\ running = TRUE
    /\ socket = IpcSocket_init
    /\ successor = NoSuccessor
    /\ tree = InitialTree
    /\ pass = NoPass
    /\ prev_ok = None
    /\ budget = 0
    /\ hist = [sent |-> <<>>, processed |-> <<>>, malformed |-> 0]
    /\ pIn = NoInput
    /\ pOut = <<>>

\* state.update(update) on the drawn state
MergeOnce ==
    /\ mR = <<>>
    /\ mR' = <<State_update(mS, mU)>>
    /\ UNCHANGED <<mS, mU>>
    /\ UNCHANGED daemon_vars /\ UNCHANGED pure_vars

\* state.update(update) again, with the same update
MergeAgain ==
    /\ Len(mR) = 1
    /\ mR' = Append(mR, State_update(mR[1], mU))
    /\ UNCHANGED <<mS, mU>>
    /\ UNCHANGED daemon_vars /\ UNCHANGED pure_vars

\* The update of a compositor reload event is merged before the client's
\* update: state.update(reload), then state.update(update).
MergeReloadFirst ==
    /\ Len(mR) = 2
    /\ mR' = Append(mR, State_update(State_update(mS, DaemonEvent_from_sway.update), mU))
    /\ UNCHANGED <<mS, mU>>
    /\ UNCHANGED daemon_vars /\ UNCHANGED pure_vars

\* The update of a compositor reload event is merged after the client's
\* update: state.update(update), then state.update(reload).
MergeReloadLast ==
    /\ Len(mR) = 3
    /\ mR' = Append(mR, State_update(mR[1], DaemonEvent_from_sway.update))
    /\ UNCHANGED <<mS, mU>>
    /\ UNCHANGED daemon_vars /\ UNCHANGED pure_vars

NextMerge == MergeOnce \/ MergeAgain \/ MergeReloadFirst \/ MergeReloadLast

SpecMerge == InitMerge /\ [][NextMerge]_vars

(***************************************************************************)
(* The pure functions on their own: the inputs are drawn in InitPure, one  *)
(* action per function applies it.                                         *)
(***************************************************************************)
\* Target selection: every layout of the windows, every outcome of the calls.
SelectStates == {State_default, State_with(State_default, StateUpdate_from_Args_daemon(
                    Args(Some("Top"), None, Some(10), Some(AbsPx(400)), None, None, FALSE)))}
SelectInputs ==
    {i \in [kind : {"select"}, floating : SUBSET WindowIds,
            focus : WindowIds \cup {NoFocus}, fault : CommandOutcomes, st : SelectStates] :
        i.focus \in i.floating \cup {NoFocus}}
SelectTree(i) == [floating |-> i.floating, focus |-> i.focus, rects |-> InitialRects]

\* Unit resolution: pixel values on both sides of 2^24, baselines whose sum
\* with the delta is negative, zero, positive, above 2^24.
ResolveUnits ==
    {AbsPx(0), AbsPx(400), AbsPx(16777217), AbsPct(50),
     RelPx(-150), RelPx(-1), RelPx(1), RelPx(50), RelPct(10)}
Baselines == {0, 100, 16777216}
Containers == {200, 1000}
\* The percentages are computed in exact fractions, which the large baseline
\* would take out of the integers of the checker: it goes with the pixel
\* units only.
ResolveInputs ==
    {i \in [kind : {"resolve"}, unit : ResolveUnits, target_px : Baselines,
            container_px : Containers] :
        i.unit.kind \in {"abs_pct", "rel_pct"} => i.target_px < F32_EXACT}

\* The unit of the command line as src/daemon/unit.rs holds it.
DaemonUnit(u) == IF u.kind = "abs_px" THEN AbsolutePixels(U32(u.v)) ELSE u

\* Percentage round trip: pixel values 0..MaxPx in containers of three sizes.
MaxPx == 20
PercentContainers == {100, 200, 1000}
PercentInputs == [kind : {"percent"}, p : 0..MaxPx, c : PercentContainers]

\* Rect::scale with only a width.
ScaleUnits == {AbsPx(400), AbsPct(50), RelPx(50), RelPx(-300), RelPct(10)}
ScaleRects == {Rect(0, 0, 200, 100), Rect(5, 5, 160, 120), Rect(0, 0, 100, 0),
               Rect(0, 0, 0, 50)}
ScaleContainers == {Rect(0, 0, 200, 100), Rect(10, 10, 1000, 800)}
ScaleRatios == {None, Some(<<4, 3>>), Some(<<0, 1>>)}
ScaleInputs ==
    [kind : {"scale"}, width : ScaleUnits, target : ScaleRects,
     container : ScaleContainers, ratio : ScaleRatios]

\* Rect::scale with a height only, with both dimensions, with neither.
SizeUnits == {AbsPx(400), AbsPct(50), RelPx(-300), RelPct(10)}
SizeRequests ==
    {<<None, Some(h)>> : h \in ScaleUnits}
        \cup {<<Some(w), Some(h)>> : w \in SizeUnits, h \in SizeUnits}
        \cup {<<None, None>>}
SizeInputs ==
    [kind : {"size"}, request : SizeRequests, target : ScaleRects,
     container : ScaleContainers, ratio : ScaleRatios]

\* Positions: containers with even and odd extents, sizes smaller and larger
\* than the container, every zone; paddings up to more than half the height
\* of the working area.
PlaceContainers == {Rect(0, 0, 200, 100), Rect(10, 10, 181, 81), Rect(1920, 0, 101, 100)}
PlaceSizes == {Rect(0, 0, 33, 33), Rect(7, 9, 100, 50), Rect(0, 0, 300, 301), Rect(0, 0, 0, 0)}
PlacePaddings == {0, 10, 60}
PlaceInputs ==
    [kind : {"place"}, container : PlaceContainers, size : PlaceSizes,
     zone : Vertical \X Horizontal, padding : PlacePaddings]

\* The command lines a daemon is started with, for either build.
StartArgs ==
    {Args(v, h, p, w, ht, n, FALSE) :
        v \in {None, Some("Top"), Some("Middle")}, h \in {None, Some("Left")},
        p \in {None, Some(10)}, w \in {None, Some(AbsPx(400))},
        ht \in {None, Some(RelPct(10))}, n \in {None, Some(TRUE), Some(FALSE)}}
StartInputs == [kind : {"start"}, b : {"main", "daemon"}, args : StartArgs]

\* A pass on one floating window: its current rect, the size request, the
\* natural flag, the zone and the padding of the state.
WindowRects == {Rect(0, 0, 200, 100), Rect(5, 5, 90, 60), Rect(20, 20, 100, 0)}
WindowRequests ==
    { <<None, None>>, <<Some(AbsPx(120)), None>>, <<None, Some(AbsPx(60))>>,
      <<Some(RelPx(30)), None>>, <<None, Some(RelPx(30))>>,
      <<Some(AbsPx(120)), Some(RelPx(30))>> }
WindowInputs ==
    [kind : {"window"}, target : WindowIds, rect : WindowRects, request : WindowRequests,
     natural : BOOLEAN, zone : {<<"Bottom", "Right">>, <<"Middle", "Middle">>},
     padding : Paddings]
WindowTree(i) ==
    [InitialTree EXCEPT !.floating = {i.target}, !.focus = i.target,
                        !.rects[i.target] = i.rect]
WindowState(i) ==
    [position |-> i.zone, padding |-> i.padding, width |-> i.request[1],
     height |-> i.request[2], natural |-> i.natural]

InitPure ==
    /\ pIn \in SelectInputs \cup ResolveInputs \cup PercentInputs \cup ScaleInputs
                \cup SizeInputs \cup PlaceInputs \cup StartInputs \cup WindowInputs
    /\ pOut = <<>>
    /\ mS = State_default
    /\ mU = StateUpdate_default
    /\ mR = <<>>
    /\ build = "main"
    /\ state = State_default
    /\ queue = <<>>
    /\ loop_pc = "idle"
    /\ event = <<>>
    /\ conns = <<>>
    /\ listener = "accepting"
    /\ sway_stream = <<>>
    /\ sway_worker = "running"
    /\ running = TRUE
    /\ socket = IpcSocket_init
    /\ successor = NoSuccessor
    /\ tree = InitialTree
    /\ pass = NoPass
    /\ prev_ok = None
    /\ budget = 0
    /\ hist = [sent |-> <<>>, processed |-> <<>>, malformed |-> 0]

\* find_target_node, and move_window of src/main.rs, on the drawn layout
SelectTarget ==
    /\ pIn.kind = "select"
    /\ pOut = <<>>
    /\ pOut' = <<[sel |-> find_target_node(SelectTree(pIn), pIn.fault),
                  pass |-> move_window(SelectTree(pIn), pIn.st, pIn.fault)]>>
    /\ UNCHANGED pIn
    /\ UNCHANGED daemon_vars /\ UNCHANGED merge_vars

\* Unit::to_absolute of src/daemon/unit.rs with a pixel baseline
ResolveDaemon ==
    /\ pIn.kind = "resolve"
    /\ pOut = <<>>
    /\ pOut' = <<[unit |-> to_absolute(DaemonUnit(pIn.unit),
                                       AbsolutePixels(U32(pIn.target_px)),
                                       pIn.container_px)]>>
    /\ UNCHANGED pIn
    /\ UNCHANGED daemon_vars /\ UNCHANGED merge_vars

\* unit_to_real_pixels of src/main.rs
ResolveMain ==
    /\ pIn.kind = "resolve"
    /\ Len(pOut) = 1
    /\ pOut' = Append(pOut, [px |-> unit_to_real_pixels(pIn.unit, pIn.target_px,
                                                       pIn.container_px)])
    /\ UNCHANGED pIn
    /\ UNCHANGED daemon_vars /\ UNCHANGED merge_vars

\* as_absolute_percentage, then as_absolute_pixels, in the same container
PercentRoundTrip ==
    /\ pIn.kind = "percent"
    /\ pOut = <<>>
    /\ \E pct \in {as_absolute_percentage(U32(pIn.p), pIn.c)} :
          pOut' = <<[pct |-> pct, px |-> as_absolute_pixels(pct, pIn.c)]>>
    /\ UNCHANGED pIn
    /\ UNCHANGED daemon_vars /\ UNCHANGED merge_vars

\* Rect::scale(Some(width), None, target, container, ratio)
ScaleWidth ==
    /\ pIn.kind = "scale"
    /\ pOut = <<>>
    /\ pOut' = <<scale(pIn.target, Some(pIn.width), None, pIn.target,
                       pIn.container, pIn.ratio)>>
    /\ UNCHANGED pIn
    /\ UNCHANGED daemon_vars /\ UNCHANGED merge_vars

\* Rect::scale(width, height, target, container, ratio) on the target itself
ScaleRect ==
    /\ pIn.kind = "size"
    /\ pOut = <<>>
    /\ pOut' = <<scale(pIn.target, pIn.request[1], pIn.request[2], pIn.target,
                       pIn.container, pIn.ratio)>>
    /\ UNCHANGED pIn
    /\ UNCHANGED daemon_vars /\ UNCHANGED merge_vars

\* get_pos_for_rect_of_size in the drawn container, and the position of
\* move_window for the drawn zone and padding in the working area
Place ==
    /\ pIn.kind = "place"
    /\ pOut = <<>>
    /\ pOut' = <<[pos |-> get_pos_for_rect_of_size(pIn.container, pIn.zone, pIn.size),
                  padded |-> with_padding(WorkingArea, pIn.padding),
                  final |-> final_pos([State_default EXCEPT !.position = pIn.zone,
                                                            !.padding = pIn.padding],
                                      pIn.size)]>>
    /\ UNCHANGED pIn
    /\ UNCHANGED daemon_vars /\ UNCHANGED merge_vars

\* submain with --daemon: the state run_daemon starts with
DaemonStart ==
    /\ pIn.kind = "start"
    /\ pOut = <<>>
    /\ pOut' = <<State_with(State_default, StateUpdate_from_Args(pIn.b, pIn.args))>>
    /\ UNCHANGED pIn
    /\ UNCHANGED daemon_vars /\ UNCHANGED merge_vars

\* move_window on the selected window, every call succeeding: the size it
\* computes and the commands it issues.
PassOnWindow ==
    /\ pIn.kind = "window"
    /\ pOut = <<>>
    /\ pOut' = <<[size |-> scaled_rect(WindowTree(pIn), pIn.target, WindowState(pIn)),
                  pass |-> apply_state(WindowTree(pIn), pIn.target, WindowState(pIn),
                                       "none")]>>
    /\ UNCHANGED pIn
    /\ UNCHANGED daemon_vars /\ UNCHANGED merge_vars

NextPure ==
    \/ PassOnWindow
    \/ SelectTarget
    \/ ResolveDaemon
    \/ ResolveMain
    \/ PercentRoundTrip
    \/ ScaleWidth
    \/ ScaleRect
    \/ Place
    \/ DaemonStart

SpecPure == InitPure /\ [][NextPure]_vars

(***************************************************************************)
(* Claims                                                                  *)
(***************************************************************************)

\* C1: for every state, merging an update that supplies only width sets width
\* to the supplied value and unsets height; an update that supplies only
\* height sets height to the supplied value and unsets width.
C1_WidthHeightCoupling ==
    Len(mR) >= 1 =>
        /\ (mU.width # None /\ mU.height = None) =>
               (mR[1].width = mU.width[1] /\ mR[1].height = None)
        /\ (mU.width = None /\ mU.height # None) =>
               (mR[1].height = mU.height[1] /\ mR[1].width = None)

\* C1 witness: a state with both width and height set has been merged with an
\* update that supplies only a width.
C1_Witness ==
    /\ Len(mR) >= 1
    /\ mS.width # None /\ mS.height # None
    /\ mU.width # None /\ mU.width[1] # None /\ mU.height = None
    /\ mR[1].height = None

\* C3: merging the empty update leaves the state unchanged, and merging the
\* same update a second time yields the state of the first merge.
C3_MergeIdempotent ==
    /\ (Len(mR) >= 1 /\ mU = StateUpdate_default) => mR[1] = mS
    /\ Len(mR) = 2 => mR[2] = mR[1]

\* C3 witness: a non-empty update that changes the state has been merged twice.
C3_Witness ==
    /\ Len(mR) = 2
    /\ mU # StateUpdate_default
    /\ mR[1] # mS

\* The step is a reconciliation pass of the loop.
IsPassStep == loop_pc = "resolving" /\ hist'.processed # hist.processed

\* The command line gave neither --width nor --height (and not --shutdown).
Unsized(origin) ==
    origin # None /\ origin[1].width = None /\ origin[1].height = None /\ ~origin[1].shutdown

\* C2: when the loop merges an update sent by a client invocation that gave
\* neither --width nor --height, the stored width and height stay as they were.
C2_UnsizedClientUpdateKeepsSize ==
    [][ (IsPassStep /\ Unsized(Head(event).origin))
            => (state'.width = state.width /\ state'.height = state.height) ]_vars

\* C2 witness: the last event processed came from a client that gave neither
\* dimension, its pass succeeded, and the daemon holds a width.
C2_Witness ==
    /\ hist.processed # <<>>
    /\ hist.sent[hist.processed[Len(hist.processed)]].src = "socket"
    /\ Unsized(hist.sent[hist.processed[Len(hist.processed)]].origin)
    /\ pass.outcome = "ok"
    /\ state.width # None

\* C4: a pass for an empty update, with the Placement State and the layout as
\* the previous successful pass left them, issues the resize and move commands
\* of that previous pass.
C4_IdempotentApplication ==
    [][ (/\ IsPassStep
         /\ Head(event).ev.update = StateUpdate_default
         /\ prev_ok # None
         /\ prev_ok[1].state = state
         /\ prev_ok[1].tree = tree
         /\ pass'.resize # None)
            => (/\ pass'.resize[1] = prev_ok[1].resize
                /\ pass'.move # None => pass'.move[1] = prev_ok[1].move) ]_vars

\* C5: a target-selection failure in a pass does not make run_daemon return.
C5_SelectionFailureNotFatal ==
    pass.outcome \in {"NoApplicableNode", "MultipleApplicableNodes"}
        => loop_pc # "returned_err"

\* C6: a failed compositor call in a pass does not make run_daemon return.
C6_CompositorFailureNotFatal ==
    pass.outcome = "SwayIPC" => loop_pc # "returned_err"

\* C7: after a pass that fails, the Placement State is the state with the
\* failed update merged in.
C7_FailedPassKeepsMerge ==
    [][ (IsPassStep /\ pass'.outcome # "ok")
            => state' = State_update(state, Head(event).ev.update) ]_vars

\* C8: after a malformed message the socket listener is still accepting,
\* as long as the socket has not been shut down.
C8_MalformedDropsOnlyConnection ==
    (hist.malformed > 0 /\ socket.listening) => listener = "accepting"

\* The ids of the update events in arrival order.
RECURSIVE UpdateIds(_)
UpdateIds(sent) ==
    IF sent = <<>> THEN <<>>
    ELSE IF Head(sent).kind = "Update" THEN <<Head(sent).id>> \o UpdateIds(Tail(sent))
    ELSE UpdateIds(Tail(sent))

IsPrefix(p, q) == Len(p) <= Len(q) /\ \A i \in 1..Len(p) : p[i] = q[i]

\* C9: the loop resolves at most one event at a time, the events it has
\* processed are the update events in arrival order, and the Placement State
\* changes in a pass of the loop only.
C9_OneAtATimeInOrder ==
    [][ /\ Len(event') <= 1
        /\ IsPrefix(hist'.processed, UpdateIds(hist'.sent))
        /\ state' # state => IsPassStep ]_vars

\* C9 witness: the loop is resolving its second or later event while another
\* event waits in the queue.
C9_Witness ==
    /\ loop_pc = "resolving"
    /\ Len(event) = 1
    /\ hist.processed # <<>>
    /\ queue # <<>>

ShutdownAt(sent) == {i \in 1..Len(sent) : sent[i].kind = "Shutdown"}

AheadOfShutdown(sent) ==
    {i \in 1..Len(sent) :
        sent[i].kind = "Update" /\ \A j \in ShutdownAt(sent) : i < j}

\* run_daemon reached its loop: it did not return from the start-up.
LoopEntered ==
    loop_pc # "subscribing" /\ ~(loop_pc = "returned_err" /\ pass.outcome = "none")

Count(seq, x) == Cardinality({k \in 1..Len(seq) : seq[k] = x})

\* C10: no event is processed twice, events are processed in the order they
\* were accepted, and once a loop that was entered has stopped with a shutdown
\* event on the queue, every update event put on the queue ahead of it has
\* been processed.
C10_NoLossNoDuplication ==
    /\ \A i \in 1..Len(hist.sent) : Count(hist.processed, i) <= 1
    /\ \A k \in 1..(Len(hist.processed) - 1) : hist.processed[k] < hist.processed[k + 1]
    /\ (loop_pc \in Stopped /\ LoopEntered /\ ShutdownAt(hist.sent) # {})
           => \A i \in AheadOfShutdown(hist.sent) : Count(hist.processed, i) = 1

\* The step is the loop taking a Shutdown event off the queue.
DequeuesShutdown ==
    queue # <<>> /\ queue' = Tail(queue) /\ Head(queue).ev.kind = "Shutdown"

\* C11: when the loop dequeues a Shutdown event (from the socket or from the
\* signal handler) it leaves its loop, and from there the socket listener and
\* the compositor subscription are asked to stop and run_daemon returns Ok.
C11_ShutdownTerminates ==
    /\ [][DequeuesShutdown => loop_pc' = "break"]_vars
    /\ (loop_pc = "break")
           ~> (loop_pc = "returned_ok" /\ ~socket.listening /\ ~running)

\* C11 witness: run_daemon has returned Ok after Shutdown events from the
\* socket and from the signal handler were accepted.
C11_Witness ==
    /\ loop_pc = "returned_ok"
    /\ ~socket.listening /\ ~running
    /\ \E i \in 1..Len(hist.sent) : hist.sent[i].kind = "Shutdown" /\ hist.sent[i].src = "socket"
    /\ \E i \in 1..Len(hist.sent) : hist.sent[i].kind = "Shutdown" /\ hist.sent[i].src = "signal"

\* C12: the IpcSocket is dropped at most once, and whenever run_daemon has
\* returned, with Ok or with an error, it was dropped exactly once: the socket
\* is shut down and its path removed.
C12_SocketReleasedOnce ==
    /\ socket.drops <= 1
    /\ loop_pc \in Returned =>
           (socket.drops = 1 /\ ~socket.listening /\ ~socket.path)
    /\ loop_pc \notin Stopped => (socket.drops = 0 /\ socket.path)

\* C12 witness: run_daemon returned an error out of its loop and the socket
\* was released.
C12_Witness ==
    /\ loop_pc = "returned_err"
    /\ pass.outcome # "none"
    /\ socket.drops = 1 /\ ~socket.path

\* C13: a daemon started while the socket path exists either sends Shutdown to
\* it and waits, or fails on the connection; it binds only when the path does
\* not exist; and once the path is gone while it waits, it binds.
C13_Handover ==
    /\ [][(successor.pc = "none" /\ successor'.pc # "none" /\ socket.path)
              => \/ successor'.pc = "failed"
                 \/ /\ successor' = [pc |-> "waiting", asked |-> TRUE]
                    /\ conns' = Append(conns, [msg |-> to_string(Shutdown),
                                               origin |-> None])]_vars
    /\ [][(successor.pc = "waiting" /\ successor'.pc # "waiting") => ~socket.path]_vars
    /\ [][(successor.pc # "bound" /\ successor'.pc = "bound") => ~socket.path]_vars
    /\ (successor.pc = "waiting" /\ ~socket.path) ~> (successor.pc = "bound")

\* C13 witness: the successor asked the running daemon to shut down, that
\* daemon processed the Shutdown and returned, and the successor is bound.
C13_Witness ==
    /\ successor = [pc |-> "bound", asked |-> TRUE]
    /\ loop_pc = "returned_ok"
    /\ ~socket.path

\* C14: with exactly one floating window in the tree, that window is the
\* target, whether it has the focus or not.
C14_SingleFloatingSelected ==
    (pIn.kind = "select" /\ Len(pOut) = 1 /\ pIn.fault # "get_tree"
        /\ Cardinality(pIn.floating) = 1)
        => /\ pOut[1].sel.ok
           /\ pOut[1].sel.target \in pIn.floating
           /\ pOut[1].pass.target \in pIn.floating

\* C14 witness: the only floating window was selected without the focus.
C14_Witness ==
    /\ pIn.kind = "select" /\ Len(pOut) = 1
    /\ pIn.floating = {2} /\ pIn.focus = NoFocus
    /\ pOut[1].sel.ok /\ pOut[1].sel.target = 2

\* C15: a pass made while no window floats issues no resize and no move
\* command and leaves the layout alone, and unless the tree query itself
\* failed its error is NoApplicableNode.
C15_NoFloatingWindow ==
    [][(IsPassStep /\ tree.floating = {})
          => /\ pass'.resize = None
             /\ pass'.move = None
             /\ tree' = tree
             /\ pass'.outcome # "SwayIPC" => pass'.outcome = "NoApplicableNode"]_vars

\* C15 witness: a pass found no floating window and failed with NoApplicableNode.
C15_Witness ==
    /\ pass.outcome = "NoApplicableNode"
    /\ pass.target = NoFocus
    /\ tree.floating = {}
    /\ hist.processed # <<>>

\* C16: with more than one floating window, the focused floating window is
\* the target, and without a focused floating window selection fails with
\* MultipleApplicableNodes and no command is issued.
C16_SeveralFloatingWindows ==
    (pIn.kind = "select" /\ Len(pOut) = 1 /\ pIn.fault # "get_tree"
        /\ Cardinality(pIn.floating) > 1)
        => IF pIn.focus \in pIn.floating
           THEN /\ pOut[1].sel.ok
                /\ pOut[1].sel.target = pIn.focus
                /\ pOut[1].pass.target = pIn.focus
           ELSE /\ ~pOut[1].sel.ok
                /\ pOut[1].sel.err = "MultipleApplicableNodes"
                /\ pOut[1].pass.outcome = "MultipleApplicableNodes"
                /\ pOut[1].pass.resize = None /\ pOut[1].pass.move = None

\* C16 witness: two floating windows, neither focused, and the selection
\* failed as ambiguous.
C16_Witness ==
    /\ pIn.kind = "select" /\ Len(pOut) = 1
    /\ pIn.floating = {1, 2} /\ pIn.focus = NoFocus /\ pIn.fault = "none"
    /\ pOut[1].sel.err = "MultipleApplicableNodes"

\* C17: a relative-pixel dimension d resolved against the baseline b is
\* max(0, b + d), in src/daemon/unit.rs and in src/main.rs.
C17_RelativePixelsClamped ==
    (pIn.kind = "resolve" /\ pIn.unit.kind = "rel_px")
        => /\ Len(pOut) >= 1 =>
                  pOut[1].unit = AbsolutePixels(U32(Max(0, pIn.target_px + pIn.unit.v)))
           /\ Len(pOut) = 2 => pOut[2].px = Max(0, pIn.target_px + pIn.unit.v)

\* C18: a pixel value turned into a percentage of a container and back into
\* pixels is within one pixel of itself.
C18_PercentageRoundTrip ==
    (pIn.kind = "percent" /\ Len(pOut) = 1)
        => Abs(as_i32(pOut[1].px) - pIn.p) <= 1

\* C19: an absolute-pixel dimension p resolves to p, in src/daemon/unit.rs
\* and in src/main.rs, with every baseline and container.
C19_AbsolutePixelsUnchanged ==
    (pIn.kind = "resolve" /\ pIn.unit.kind = "abs_px")
        => /\ Len(pOut) >= 1 => pOut[1].unit = AbsolutePixels(U32(pIn.unit.v))
           /\ Len(pOut) = 2 => pOut[2].px = pIn.unit.v

\* The aspect scale uses: the given ratio, or else the target's.
AspectOf(i) ==
    IF i.ratio # None THEN i.ratio[1] ELSE aspect_ratio(i.target.width, i.target.height)

\* C20: scale with only a width: the width is the unit resolved against the
\* target's and the container's width, the height is round(width / aspect),
\* and 0 when the aspect is 0.
C20_ScaleWidthOnly ==
    (pIn.kind = "scale" /\ Len(pOut) = 1)
        => /\ pOut[1].width =
                  unit_to_real_pixels(pIn.width, pIn.target.width, pIn.container.width)
           /\ pOut[1].height =
                  IF AspectOf(pIn)[1] = 0 THEN 0
                  ELSE Round(pOut[1].width * AspectOf(pIn)[2], AspectOf(pIn)[1])
           /\ pOut[1].x = pIn.target.x /\ pOut[1].y = pIn.target.y

\* C20 witness: a width scaled by a non-zero aspect to a height that differs
\* from the target's.
C20_Witness ==
    /\ pIn.kind = "scale" /\ Len(pOut) = 1
    /\ AspectOf(pIn)[1] # 0
    /\ pIn.ratio = None
    /\ pOut[1].height # pIn.target.height
    /\ pOut[1].height > 0

\* C21: scale with only a height: the height is the unit resolved against the
\* target's and the container's height, the width is round(height * aspect),
\* and 0 when the aspect is 0.
C21_ScaleHeightOnly ==
    (pIn.kind = "size" /\ pIn.request[1] = None /\ pIn.request[2] # None /\ Len(pOut) = 1)
        => /\ pOut[1].height =
                  unit_to_real_pixels(pIn.request[2][1], pIn.target.height,
                                      pIn.container.height)
           /\ pOut[1].width =
                  IF AspectOf(pIn)[1] = 0 THEN 0
                  ELSE Round(pOut[1].height * AspectOf(pIn)[1], AspectOf(pIn)[2])
           /\ pOut[1].x = pIn.target.x /\ pOut[1].y = pIn.target.y

\* C21 witness: a height scaled by the target's own non-zero aspect to a
\* width that differs from the target's and from the height.
C21_Witness ==
    /\ pIn.kind = "size" /\ Len(pOut) = 1
    /\ pIn.request[1] = None /\ pIn.request[2] # None
    /\ pIn.ratio = None
    /\ AspectOf(pIn)[1] # 0
    /\ pOut[1].width \notin {0, pIn.target.width, pOut[1].height}

\* C22: scale with both dimensions given: each output dimension is its own
\* request resolved on its own axis, whatever the target's aspect and the
\* ratio override are.
C22_ScaleBothStretches ==
    (pIn.kind = "size" /\ pIn.request[1] # None /\ pIn.request[2] # None /\ Len(pOut) = 1)
        => /\ pOut[1].width =
                  unit_to_real_pixels(pIn.request[1][1], pIn.target.width,
                                      pIn.container.width)
           /\ pOut[1].height =
                  unit_to_real_pixels(pIn.request[2][1], pIn.target.height,
                                      pIn.container.height)

\* C22 witness: both given with a ratio override, and the result has another
\* aspect than the override and than the target.
C22_Witness ==
    /\ pIn.kind = "size" /\ Len(pOut) = 1
    /\ pIn.request[1] # None /\ pIn.request[2] # None
    /\ pIn.ratio = Some(<<4, 3>>)
    /\ pOut[1].height > 0 /\ pIn.target.height > 0
    /\ pOut[1].width * 3 # pOut[1].height * 4
    /\ pOut[1].width * pIn.target.height # pOut[1].height * pIn.target.width

\* C23: scale with neither dimension given returns the target's width and
\* height, so a pass for a state without a size resizes the selected window
\* to the size it has.
C23_ScaleNeitherKeepsSize ==
    /\ (pIn.kind = "size" /\ pIn.request = <<None, None>> /\ Len(pOut) = 1)
          => (pOut[1].width = pIn.target.width /\ pOut[1].height = pIn.target.height)
    /\ (pIn.kind = "select" /\ Len(pOut) = 1
            /\ pIn.st.width = None /\ pIn.st.height = None
            /\ pOut[1].pass.resize # None)
          => /\ pOut[1].pass.resize[1] =
                    [width |-> InitialRects[pOut[1].sel.target].width,
                     height |-> InitialRects[pOut[1].sel.target].height]
             /\ \A w \in WindowIds :
                    /\ pOut[1].pass.tree.rects[w].width = InitialRects[w].width
                    /\ pOut[1].pass.tree.rects[w].height = InitialRects[w].height

\* C23 witness: a pass for the default state on a window with a title bar
\* issued its resize command.
C23_Witness ==
    /\ pIn.kind = "select" /\ Len(pOut) = 1
    /\ pIn.st = State_default
    /\ pOut[1].pass.outcome = "ok"
    /\ pOut[1].sel.target = 1
    /\ DecoHeight[1] > 0
    /\ pOut[1].pass.resize = Some([width |-> 200, height |-> 100])

\* The zone fraction of a zone name, in halves.
Halves(zone) == CASE zone \in {"Top", "Left"} -> 0 [] zone = "Middle" -> 1 [] OTHER -> 2

\* C24: position_for gives on each axis fraction * (container extent - size
\* extent) truncated toward zero, with fraction 0, 1/2, 1 for Top/Left,
\* Middle, Bottom/Right; it keeps the size's width and height and does not
\* clamp the offsets.
C24_PositionFor ==
    (pIn.kind = "place" /\ Len(pOut) = 1)
        => /\ pOut[1].pos.x =
                  Trunc(Halves(pIn.zone[2]) * (pIn.container.width - pIn.size.width), 2)
           /\ pOut[1].pos.y =
                  Trunc(Halves(pIn.zone[1]) * (pIn.container.height - pIn.size.height), 2)
           /\ pOut[1].pos.width = pIn.size.width
           /\ pOut[1].pos.height = pIn.size.height
           /\ pIn.zone = <<"Top", "Left">> => (pOut[1].pos.x = 0 /\ pOut[1].pos.y = 0)
           /\ pIn.zone = <<"Bottom", "Right">> =>
                  /\ pOut[1].pos.x = pIn.container.width - pIn.size.width
                  /\ pOut[1].pos.y = pIn.container.height - pIn.size.height

\* C24 witness: (Middle, Middle) with a size larger than the container by an
\* odd number of pixels: negative offsets, truncated toward zero.
C24_Witness ==
    /\ pIn.kind = "place" /\ Len(pOut) = 1
    /\ pIn.zone = <<"Middle", "Middle">>
    /\ pIn.container.width - pIn.size.width = -119
    /\ pOut[1].pos.x = -59
    /\ pOut[1].pos.y = -110

\* C25: padding p on the W x H working area gives the container
\* (W - 2p) x (H - 2p) at (p, p), and the position of the move command is the
\* zone offset inside that container plus (p, p): (p, p) for (Top, Left).
C25_PaddingRetranslated ==
    /\ (pIn.kind = "place" /\ Len(pOut) = 1)
          => /\ pOut[1].padded =
                    Rect(WorkingArea.x + pIn.padding, WorkingArea.y + pIn.padding,
                         WorkingArea.width - 2 * pIn.padding,
                         WorkingArea.height - 2 * pIn.padding)
             /\ pOut[1].final.x = pIn.padding +
                    Trunc(Halves(pIn.zone[2])
                            * (WorkingArea.width - 2 * pIn.padding - pIn.size.width), 2)
             /\ pOut[1].final.y = pIn.padding +
                    Trunc(Halves(pIn.zone[1])
                            * (WorkingArea.height - 2 * pIn.padding - pIn.size.height), 2)
             /\ pIn.zone = <<"Top", "Left">> =>
                    (pOut[1].final.x = pIn.padding /\ pOut[1].final.y = pIn.padding)
    /\ (pIn.kind = "select" /\ Len(pOut) = 1 /\ pOut[1].pass.move # None)
          => /\ pOut[1].pass.move[1].x = pIn.st.padding +
                    Trunc(Halves(pIn.st.position[2])
                            * (WorkingArea.width - 2 * pIn.st.padding
                                 - pOut[1].pass.resize[1].width), 2)
             /\ pOut[1].pass.move[1].y = pIn.st.padding +
                    Trunc(Halves(pIn.st.position[1])
                            * (WorkingArea.height - 2 * pIn.st.padding
                                 - pOut[1].pass.resize[1].height), 2)

\* C25 witness: padding 10, a 33 x 33 window at (Top, Left) goes to (10, 10).
C25_Witness ==
    /\ pIn.kind = "place" /\ Len(pOut) = 1
    /\ pIn.padding = 10
    /\ pIn.zone = <<"Top", "Left">>
    /\ pIn.size.width = 33 /\ pIn.size.height = 33
    /\ pOut[1].padded = Rect(10, 10, 180, 80)
    /\ pOut[1].final.x = 10 /\ pOut[1].final.y = 10

\* C26: the merge overwrites the vertical zone, the horizontal zone, the
\* padding and natural-aspect each when the update has it and keeps it when
\* the update has not, whatever the other fields of the update are.
C26_MergeOtherFields ==
    Len(mR) >= 1 =>
        /\ mR[1].position[1] =
               IF mU.position[1] # None THEN mU.position[1][1] ELSE mS.position[1]
        /\ mR[1].position[2] =
               IF mU.position[2] # None THEN mU.position[2][1] ELSE mS.position[2]
        /\ mR[1].padding = IF mU.padding # None THEN mU.padding[1] ELSE mS.padding
        /\ mR[1].natural = IF mU.natural # None THEN mU.natural[1] ELSE mS.natural

\* C26 witness: an update with a vertical zone, a size and nothing else
\* changed the vertical zone and kept horizontal zone, padding and natural.
C26_Witness ==
    /\ Len(mR) >= 1
    /\ mU.position = <<Some("Middle"), None>>
    /\ mU.padding = None /\ mU.natural = None /\ mU.width # None
    /\ mS.position = <<"Top", "Left">> /\ mS.padding = 10 /\ mS.natural
    /\ mR[1].position = <<"Middle", "Left">>
    /\ mR[1].padding = 10 /\ mR[1].natural

\* C27: merging an update without width and without height keeps the
\* state's width and height, whatever they are.
C27_UnsizedMergeKeepsSize ==
    (Len(mR) >= 1 /\ mU.width = None /\ mU.height = None)
        => (mR[1].width = mS.width /\ mR[1].height = mS.height)

\* C27 witness: a state with a width and a height merged with an update that
\* changes other fields.
C27_Witness ==
    /\ Len(mR) >= 1
    /\ mU.width = None /\ mU.height = None
    /\ mU.padding # None /\ mU.position # PositionUpdate_default
    /\ mS.width = Some(AbsPx(400)) /\ mS.height = Some(RelPx(50))
    /\ mR[1] # mS
    /\ mR[1].width = Some(AbsPx(400)) /\ mR[1].height = Some(RelPx(50))

\* A step in which the program is run without --daemon, with the arguments
\* kept as the origin of what it sent.
IsClientInvocation ==
    /\ Len(conns') = Len(conns) + 1
    /\ conns'[Len(conns')].origin # None

\* C28 as stated: a run without --daemon resolves and applies the placement
\* of its arguments, merged into the default state, once: the pass of that
\* state on the current layout is made in that step.
C28_OneShotAppliesPlacement ==
    [][(IsClientInvocation /\ ~conns'[Len(conns')].origin[1].shutdown)
          => \E fault \in CommandOutcomes :
             \E r \in {move_window(tree,
                                   State_with(State_default,
                                       StateUpdate_from_Args(build,
                                           conns'[Len(conns')].origin[1])),
                                   fault)} :
                 /\ pass' = PassOf(r)
                 /\ tree' = r.tree]_vars

\* C28 amended: a run without --daemon makes no pass of its own: it writes
\* one message to the daemon's socket, Shutdown with --shutdown and otherwise
\* the update of its arguments, and changes nothing else; the daemon's state
\* and the windows are as before.
C28_ClientOnlySends ==
    [][IsClientInvocation
          => \E args \in {conns'[Len(conns')].origin[1]} :
             /\ conns' = Append(conns, conns'[Len(conns')])
             /\ conns'[Len(conns')].msg.kind = IF args.shutdown THEN "Shutdown" ELSE "Update"
             /\ ~args.shutdown =>
                    conns'[Len(conns')].msg.update =
                        [position |-> <<args.vertical, args.horizontal>>,
                         padding |-> args.padding, width |-> args.width,
                         height |-> args.height, natural |-> args.natural]
             /\ UNCHANGED <<state, tree, pass, prev_ok, queue, event, loop_pc, socket>>]_vars

\* C28 witness: a client run with a width was made, its message waits on the
\* socket, and no pass has been made.
C28_Witness ==
    /\ conns # <<>>
    /\ Head(conns).origin # None
    /\ Head(conns).origin[1].width # None
    /\ Head(conns).msg.kind = "Update"
    /\ pass = NoPass
    /\ hist.processed = <<>>

\* C29: the state the daemon starts with is (Bottom, Right), padding 0, no
\* width, no height, natural-aspect off, with the zones, padding, width,
\* height and natural-aspect of its own command line put in their place.
C29_InitialState ==
    (pIn.kind = "start" /\ Len(pOut) = 1)
        => pOut[1] =
              [position |->
                   << IF pIn.args.vertical # None THEN pIn.args.vertical[1] ELSE "Bottom",
                      IF pIn.args.horizontal # None THEN pIn.args.horizontal[1] ELSE "Right" >>,
               padding |-> IF pIn.args.padding # None THEN pIn.args.padding[1] ELSE 0,
               width |-> pIn.args.width,
               height |-> pIn.args.height,
               natural |-> IF pIn.args.natural # None THEN pIn.args.natural[1] ELSE FALSE]

\* C29 witness: a daemon started with a vertical zone and a width only.
C29_Witness ==
    /\ pIn.kind = "start" /\ Len(pOut) = 1
    /\ pIn.args = Args(Some("Top"), None, None, Some(AbsPx(400)), None, None, FALSE)
    /\ pOut[1].position = <<"Top", "Right">>
    /\ pOut[1].padding = 0
    /\ pOut[1].width = Some(AbsPx(400)) /\ pOut[1].height = None
    /\ ~pOut[1].natural

\* C30: in every pass the resize command comes before the move command,
\* both name the window selected in the pass, and after a resize command
\* that failed no move command is issued.
C30_ResizeThenMove ==
    (pIn.kind = "select" /\ Len(pOut) = 1)
        => \E c \in {pOut[1].pass.cmds} :
              /\ Len(c) <= 2
              /\ Len(c) >= 1 => c[1].cmd = "resize"
              /\ Len(c) = 2 => (c[2].cmd = "move" /\ c[1].result = "ok")
              /\ \A i \in 1..Len(c) :
                     pOut[1].sel.ok /\ c[i].con_id = pOut[1].sel.target

\* The worker takes the next event off the subscription stream.
WorkerReads == sway_stream # <<>> /\ sway_stream' = Tail(sway_stream)

\* The worker hands an event to the loop's queue.
SwayForwards ==
    /\ Len(hist'.sent) = Len(hist.sent) + 1
    /\ hist'.sent[Len(hist'.sent)].src = "sway"

\* C31: the compositor-event worker forwards an event to the loop only for
\* a workspace event whose change is a reload; every other event it reads
\* (window, tick, other workspace changes) is discarded in the worker and
\* puts nothing in the loop's queue.
C31_OnlyReloadForwarded ==
    [][ /\ SwayForwards => sway_worker = "sleeping"
        /\ (sway_worker # "sleeping" /\ sway_worker' = "sleeping")
              => (WorkerReads /\ Head(sway_stream) = "workspace_reload")
        /\ (WorkerReads /\ Head(sway_stream) # "workspace_reload")
              => (sway_worker' # "sleeping" /\ queue' = queue /\ hist' = hist)
      ]_vars

\* C31 witness: the compositor emitted two events and the worker read both;
\* one reached the loop's queue, the other was discarded.
C31_Witness ==
    /\ loop_pc = "idle" /\ sway_worker = "running" /\ sway_stream = <<>>
    /\ budget = MaxInputs - 2
    /\ tree = InitialTree /\ successor = NoSuccessor
    /\ conns = <<>> /\ hist.malformed = 0
    /\ Len(hist.sent) = 1 /\ hist.sent[1].src = "sway"

\* C32: for any client update U and any compositor reload event R merged
\* from the same starting state, the Placement State after U then R equals
\* the Placement State after R then U, and both are the state after U alone.
C32_ReloadOrderIrrelevant ==
    Len(mR) = 4 => (mR[3] = mR[4] /\ mR[4] = mR[1])

\* C32 witness: both orders were merged for an update that changes the
\* state (a width, which also unsets the stored height).
C32_Witness ==
    /\ Len(mR) = 4
    /\ mS.height # None /\ mU.width # None /\ mU.width[1] # None /\ mU.height = None
    /\ mU.padding # None /\ mU.padding[1] # mS.padding
    /\ mR[4] # mS /\ mR[4].height = None

\* C33: shutting the subscription down clears the worker's running flag and
\* injects a tick event; the worker leaves its loop at the next event it
\* reads after the flag was cleared, without forwarding that event; and so
\* after the flag was cleared the worker eventually exits.
C33_WorkerExitsAfterShutdown ==
    /\ [][(running /\ ~running') => sway_stream' = Append(sway_stream, "tick")]_vars
    /\ [][(WorkerReads /\ ~running)
              => (sway_worker' = "exited" /\ queue' = queue /\ hist' = hist)]_vars
    /\ (~running) ~> (sway_worker = "exited")

\* C33 witness: the only input was a signal; run_daemon returned after the
\* Shutdown and the worker exited on the injected tick.
C33_Witness ==
    /\ loop_pc = "returned_ok" /\ ~running
    /\ sway_worker = "exited" /\ sway_stream = <<>>
    /\ budget = MaxInputs - 1
    /\ Len(hist.sent) = 1 /\ hist.sent[1].src = "signal"

\* Exactly one of width and height is requested.
OneDimension(i) == (i.request[1] = None) # (i.request[2] = None)

\* The ratio width : height the claim names for a pass: the natural
\* geometry's when the state asks for it, else the current rect's; 0 : 1
\* when the height is 0.
RatioFor(i) ==
    IF i.natural
    THEN IF Geometry[i.target].height = 0 THEN <<0, 1>>
         ELSE <<Geometry[i.target].width, Geometry[i.target].height>>
    ELSE IF i.rect.height = 0 THEN <<0, 1>>
         ELSE <<i.rect.width, i.rect.height>>

\* C34: when one dimension is requested, the other is derived with the
\* window's natural geometry width / height if the state asks for the
\* natural aspect, and with the current rectangle's width / height if not
\* (0 when that height is 0); the resize command carries that size.
C34_NaturalAspect ==
    (pIn.kind = "window" /\ Len(pOut) = 1 /\ OneDimension(pIn))
        => /\ pIn.request[1] # None =>
                  pOut[1].size.height =
                      IF RatioFor(pIn)[1] = 0 THEN 0
                      ELSE Round(pOut[1].size.width * RatioFor(pIn)[2], RatioFor(pIn)[1])
           /\ pIn.request[2] # None =>
                  pOut[1].size.width =
                      IF RatioFor(pIn)[1] = 0 THEN 0
                      ELSE Round(pOut[1].size.height * RatioFor(pIn)[1], RatioFor(pIn)[2])
           /\ pOut[1].pass.resize =
                  Some([width |-> pOut[1].size.width, height |-> pOut[1].size.height])

\* C34 witness: a 200 x 100 window whose natural geometry is 160 x 120 is
\* given a width of 120 with the natural aspect: the height is 90, not 60.
C34_Witness ==
    /\ pIn.kind = "window" /\ Len(pOut) = 1
    /\ pIn.natural /\ pIn.target = 1 /\ pIn.rect = Rect(0, 0, 200, 100)
    /\ pIn.request = <<Some(AbsPx(120)), None>>
    /\ pOut[1].pass.resize = Some([width |-> 120, height |-> 90])

\* C35: the height of the window's decoration rectangle adds to the
\* window's effective height in a pass: a pass without a size request
\* computes the rect's height plus the decoration height, a relative height
\* is added to that sum, and the position is the zone's offset for that
\* height.
C35_DecorationCounted ==
    (pIn.kind = "window" /\ Len(pOut) = 1 /\ pIn.request[1] = None /\ ~pIn.natural
        /\ pIn.request[2] \in {None, Some(RelPx(30))})
        => /\ pOut[1].pass.resize[1].height =
                  pIn.rect.height + DecoHeight[pIn.target]
                      + (IF pIn.request[2] = None THEN 0 ELSE 30)
           /\ pOut[1].pass.move[1].y =
                  pIn.padding
                  + Trunc((WorkingArea.height - 2 * pIn.padding
                              - pOut[1].pass.resize[1].height) * v_offset(pIn.zone), 2)

\* The loop has taken a Shutdown event off the queue.
AfterShutdown == loop_pc \in {"break", "socket_down", "returned_ok"}

\* C36: update events that are in the queue behind a Shutdown event are
\* never merged into the Placement State and cause no compositor command:
\* once the loop has dequeued Shutdown it takes no further event, the state
\* and the windows' rectangles stay as they are and no pass is made; no
\* event accepted after a Shutdown event is ever processed.
C36_NothingAfterShutdown ==
    /\ [][AfterShutdown
              => /\ state' = state /\ pass' = pass /\ tree'.rects = tree.rects
                 /\ event' = event /\ hist'.processed = hist.processed
                 /\ Len(queue') >= Len(queue)]_vars
    /\ [](\A k \in 1..Len(hist.processed) :
              \A j \in ShutdownAt(hist.sent) : hist.processed[k] < j)

\* C36 witness: run_daemon has returned after a Shutdown while an update
\* event accepted behind it is still in the queue, unprocessed.
C36_Witness ==
    /\ loop_pc = "returned_ok"
    /\ queue # <<>> /\ Head(queue).ev.kind = "Update"
    /\ Count(hist.processed, Head(queue).id) = 0
    /\ \E j \in ShutdownAt(hist.sent) : j < Head(queue).id

\* The socket path exists and nothing accepts connections on it.
StalePath == socket.path /\ ~(socket.listening /\ listener = "accepting")

\* C37: a daemon that starts while the socket path exists and nothing
\* accepts connections on it fails in init_or_replace with the error of
\* sending Shutdown: it sends nothing, does not wait, does not bind and
\* does not remove the path, and it stays failed.
C37_StaleSocketFails ==
    /\ [][(successor.pc = "none" /\ successor'.pc # "none" /\ StalePath)
              => /\ successor' = [pc |-> "failed", asked |-> FALSE]
                 /\ socket' = socket /\ conns' = conns /\ queue' = queue]_vars
    /\ [][successor.pc = "failed" => successor' = successor]_vars

\* C37 witness: the listener thread is gone after a malformed message, the
\* path is still there, and a daemon started on it has failed without
\* asking anyone to shut down.
C37_Witness ==
    /\ successor = [pc |-> "failed", asked |-> FALSE]
    /\ socket.path /\ listener = "panicked"
    /\ loop_pc = "idle"

====
